---- MODULE Spec2Model ----
(***************************************************************************)
(* Near-Earth-object project: the entity model (models.py), the record     *)
(* loaders (extract.py), the linker/query of the database and the result   *)
(* writers (write.py).                                                     *)
(*                                                                         *)
(* Representation.                                                        *)
(*   - Python str: a TLA+ string, except numeric text handed to float(),   *)
(*     which is a sequence of one-character strings so that parsing is     *)
(*     computed character by character.                                    *)
(*   - Python float: [kind |-> "float", milli |-> n], n the value in       *)
(*     thousandths (the inputs carry at most three fractional digits), or  *)
(*     NaN == [kind |-> "nan", milli |-> 0].                               *)
(*   - None / an object reference: the empty sequence / a one-element      *)
(*     sequence.                                                           *)
(*   - a call's outcome: Return(v) or Raise(e).                            *)
(***************************************************************************)
EXTENDS Integers, Sequences, FiniteSets, TLC

VARIABLES
    args,       \* the four raw strings handed to NearEarthObject(...)
    obj,        \* outcome of that construction
    view,       \* outcome of the last property/method called on the NEO
    pc,         \* position of the main program: load, link, query, write
    neos,       \* load_neos' dict: designation -> NearEarthObject
    cads,       \* load_approaches' list of CloseApproach
    results,    \* the sequence handed to the writers (indices into cads)
    csvFile,    \* the CSV output file
    jsonFile,   \* the JSON output file
    exc,        \* the uncaught exception that ended the run, or "none"
    inputs      \* the raw rows, the filters and the writer the run was given

vars == <<args, obj, view, pc, neos, cads, results, csvFile, jsonFile, exc, inputs>>
entityVars == <<args, obj, view>>
dbVars == <<pc, neos, cads, results, csvFile, jsonFile, exc, inputs>>

-----------------------------------------------------------------------------
(* Values *)

None == <<>>
Some(x) == <<x>>

Return(v) == [exc |-> "none", val |-> v]
Raise(e) == [exc |-> e, val |-> None]
Returned(r) == r.exc = "none"

NaN == [kind |-> "nan", milli |-> 0]
Float(m) == [kind |-> "float", milli |-> m]
isnan(x) == x.kind = "nan"

-----------------------------------------------------------------------------
(* float(text) and format(value, ".Nf") *)

DigitChars == <<"0", "1", "2", "3", "4", "5", "6", "7", "8", "9">>
Digits == {DigitChars[i] : i \in 1..10}
DigitVal(c) == (CHOOSE i \in 1..10 : DigitChars[i] = c) - 1

RECURSIVE LStrip(_)
LStrip(s) == IF s # <<>> /\ Head(s) = " " THEN LStrip(Tail(s)) ELSE s

RECURSIVE RStrip(_)
RStrip(s) ==
    IF s # <<>> /\ s[Len(s)] = " " THEN RStrip(SubSeq(s, 1, Len(s) - 1)) ELSE s

Strip(s) == RStrip(LStrip(s))

RECURSIVE IntVal(_)
IntVal(ds) ==
    IF ds = <<>> THEN 0
    ELSE 10 * IntVal(SubSeq(ds, 1, Len(ds) - 1)) + DigitVal(ds[Len(ds)])

DotAt(u) == {i \in 1..Len(u) : u[i] = "."}

IsDecimal(u) ==
    /\ \A i \in 1..Len(u) : u[i] \in Digits \cup {"."}
    /\ Cardinality(DotAt(u)) <= 1
    /\ \E i \in 1..Len(u) : u[i] \in Digits

Pad3(ds) == SubSeq(ds \o <<"0", "0", "0">>, 1, 3)

Milli(u) ==
    IF DotAt(u) = {} THEN 1000 * IntVal(u)
    ELSE LET k == CHOOSE i \in DotAt(u) : TRUE
         IN 1000 * IntVal(SubSeq(u, 1, k - 1))
              + IntVal(Pad3(SubSeq(u, k + 1, Len(u))))

\* float(s) for s over digits, ".", sign, blank and lower-case letters.
ParseFloat(s) ==
    LET t == Strip(s)
        signed == t # <<>> /\ Head(t) \in {"-", "+"}
        u == IF signed THEN Tail(t) ELSE t
        sign == IF signed /\ Head(t) = "-" THEN -1 ELSE 1
    IN  IF u = <<"n", "a", "n">> THEN Return(NaN)
        ELSE IF IsDecimal(u) THEN Return(Float(sign * Milli(u)))
        ELSE Raise("ValueError")

RECURSIVE NatStr(_)
NatStr(n) ==
    IF n < 10 THEN DigitChars[n + 1]
    ELSE NatStr(n \div 10) \o DigitChars[(n % 10) + 1]

Abs(n) == IF n < 0 THEN -n ELSE n

\* f"{x:.3f}" of a float
Fixed3(x) ==
    IF isnan(x) THEN "nan"
    ELSE LET a == Abs(x.milli)
             f == a % 1000
         IN  (IF x.milli < 0 THEN "-" ELSE "")
             \o NatStr(a \div 1000) \o "."
             \o DigitChars[(f \div 100) + 1]
             \o DigitChars[((f \div 10) % 10) + 1]
             \o DigitChars[(f % 10) + 1]

\* A value inside an f-string replacement field carrying the spec ".3f":
\* str.__format__ rejects the 'f' code, float.__format__ renders it.
PyStr(s) == [type |-> "str", s |-> s, f |-> NaN]
PyFloat(x) == [type |-> "float", s |-> "", f |-> x]

Format3f(v) ==
    IF v.type = "str" THEN Raise("ValueError") ELSE Return(Fixed3(v.f))

-----------------------------------------------------------------------------
(* models.py: NearEarthObject *)

NearEarthObject(designation, name, diameter, hazardous) ==
    LET d == IF diameter # <<>> THEN ParseFloat(diameter) ELSE Return(NaN)
    IN  IF ~Returned(d) THEN Raise(d.exc)
        ELSE Return([designation |-> designation,
                     name |-> IF name # "" THEN Some(name) ELSE None,
                     diameter |-> d.val,
                     hazardous |-> (hazardous = "Y"),
                     approaches |-> <<>>])

\* f"{x}" of an attribute that is a str or None
FormatOpt(o) == IF o = None THEN "None" ELSE o[1]

fullname(self) == self.designation \o " - " \o FormatOpt(self.name)

NeoStr(self) ==
    LET d == Format3f(IF isnan(self.diameter) THEN PyStr("not available")
                      ELSE PyFloat(self.diameter))
    IN  IF ~Returned(d) THEN Raise(d.exc)
        ELSE Return(fullname(self) \o ", has a diameter of " \o d.val
                    \o ", and " \o (IF self.hazardous THEN "is" ELSE "is not")
                    \o " potentially hazardous.")

Truthy(o) == o # None /\ o[1] # ""

\* serialize() without the guard on a missing name
NeoSerialize_Unguarded(self) ==
    [designation |-> self.designation,
     name |-> FormatOpt(self.name),
     diameter_km |-> self.diameter,
     potentially_hazardous |-> self.hazardous]

NeoSerialize(self) ==
    [designation |-> self.designation,
     name |-> IF Truthy(self.name) THEN self.name[1] ELSE "",
     diameter_km |-> self.diameter,
     potentially_hazardous |-> self.hazardous]

-----------------------------------------------------------------------------
(* helpers: cd_to_datetime, datetime_to_str.  A compact NASA timestamp     *)
(* "YYYY-MMM-DD HH:MM" is the tuple <<YYYY, "MMM", DD, HH, MM>>.           *)

MonthAbbr ==
    <<"Jan", "Feb", "Mar", "Apr", "May", "Jun",
      "Jul", "Aug", "Sep", "Oct", "Nov", "Dec">>

cd_to_datetime(cd) ==
    IF \E m \in 1..12 : MonthAbbr[m] = cd[2]
    THEN Return([year |-> cd[1],
                 month |-> CHOOSE m \in 1..12 : MonthAbbr[m] = cd[2],
                 day |-> cd[3], hour |-> cd[4], minute |-> cd[5]])
    ELSE Raise("ValueError")

Pad2(n) == IF n < 10 THEN "0" \o NatStr(n) ELSE NatStr(n)

datetime_to_str(t) ==
    NatStr(t.year) \o "-" \o Pad2(t.month) \o "-" \o Pad2(t.day)
        \o " " \o Pad2(t.hour) \o ":" \o Pad2(t.minute)

-----------------------------------------------------------------------------
(* models.py: CloseApproach *)

\* the constructor storing the designation as the NEO reference
CloseApproach_NeoPreset(designation, time, distance, velocity) ==
    LET t == cd_to_datetime(time)
        d == ParseFloat(distance)
        v == ParseFloat(velocity)
    IN  IF ~Returned(t) THEN Raise(t.exc)
        ELSE IF ~Returned(d) THEN Raise(d.exc)
        ELSE IF ~Returned(v) THEN Raise(v.exc)
        ELSE Return([_designation |-> designation,
                     time |-> t.val,
                     distance |-> d.val,
                     velocity |-> v.val,
                     neo |-> Some(designation)])

CloseApproach(designation, time, distance, velocity) ==
    LET t == cd_to_datetime(time)
        d == ParseFloat(distance)
        v == ParseFloat(velocity)
    IN  IF ~Returned(t) THEN Raise(t.exc)
        ELSE IF ~Returned(d) THEN Raise(d.exc)
        ELSE IF ~Returned(v) THEN Raise(v.exc)
        ELSE Return([_designation |-> designation,
                     time |-> t.val,
                     distance |-> d.val,
                     velocity |-> v.val,
                     neo |-> None])

ApproachSerialize(self) ==
    [datetime_utc |-> datetime_to_str(self.time),
     distance_au |-> self.distance,
     velocity_km_s |-> self.velocity]

-----------------------------------------------------------------------------
(* extract.py.  A dict is a function on its key set; a CSV line is the     *)
(* DictReader's mapping; a JSON data row is a list, Python index k being   *)
(* position k + 1.                                                         *)

EmptyDict == [k \in {} |-> None]
Put(d, k, v) == [x \in (DOMAIN d) \cup {k} |-> IF x = k THEN v ELSE d[x]]

RECURSIVE LoadNeosLoop(_, _, _)
LoadNeosLoop(reader, i, dict) ==
    IF i > Len(reader) THEN Return(dict)
    ELSE LET line == reader[i]
             neo == NearEarthObject(line.pdes, line.name,
                                    line.diameter, line.pha)
         IN  IF ~Returned(neo) THEN Raise(neo.exc)
             ELSE LoadNeosLoop(reader, i + 1, Put(dict, line.pdes, neo.val))

\* the loader keeping the first NEO of a designation
RECURSIVE LoadNeosKeepFirstLoop(_, _, _)
LoadNeosKeepFirstLoop(reader, i, dict) ==
    IF i > Len(reader) THEN Return(dict)
    ELSE LET line == reader[i]
             neo == NearEarthObject(line.pdes, line.name,
                                    line.diameter, line.pha)
         IN  IF ~Returned(neo) THEN Raise(neo.exc)
             ELSE LoadNeosKeepFirstLoop(
                    reader, i + 1,
                    IF line.pdes \in DOMAIN dict THEN dict
                    ELSE Put(dict, line.pdes, neo.val))

load_neos_KeepFirst(reader) == LoadNeosKeepFirstLoop(reader, 1, EmptyDict)

load_neos(reader) == LoadNeosLoop(reader, 1, EmptyDict)

RECURSIVE LoadApproachesLoop(_, _, _)
LoadApproachesLoop(data, i, list) ==
    IF i > Len(data) THEN Return(list)
    ELSE LET cad == data[i]
             ca == CloseApproach(cad[1], cad[4], cad[5], cad[8])
         IN  IF ~Returned(ca) THEN Raise(ca.exc)
             ELSE LoadApproachesLoop(data, i + 1, Append(list, ca.val))

\* the loader inserting each approach at the front of the list
RECURSIVE LoadApproachesFrontLoop(_, _, _)
LoadApproachesFrontLoop(data, i, list) ==
    IF i > Len(data) THEN Return(list)
    ELSE LET cad == data[i]
             ca == CloseApproach(cad[1], cad[4], cad[5], cad[8])
         IN  IF ~Returned(ca) THEN Raise(ca.exc)
             ELSE LoadApproachesFrontLoop(data, i + 1, <<ca.val>> \o list)

load_approaches_Front(data) == LoadApproachesFrontLoop(data, 1, <<>>)

load_approaches(data) == LoadApproachesLoop(data, 1, <<>>)

-----------------------------------------------------------------------------
(* NEODatabase: construction (linking) and query.  An approach refers to   *)
(* its NEO by the key of the designation index; a NEO refers to its        *)
(* approaches by their position in the approach list.                      *)

RECURSIVE LinkLoop(_, _, _)
LinkLoop(ns, cs, i) ==
    IF i > Len(cs) THEN [neos |-> ns, cads |-> cs]
    ELSE LET des == cs[i]._designation
         IN  IF des \in DOMAIN ns
             THEN LinkLoop(
                    [ns EXCEPT ![des].approaches = Append(@, i)],
                    [cs EXCEPT ![i].neo = Some(des)],
                    i + 1)
             ELSE LinkLoop(ns, cs, i + 1)

NEODatabase(ns, cs) == LinkLoop(ns, cs, 1)

\* A filter: a pure predicate over one CloseApproach.
DistanceMax(m) == [attr |-> "distance", op |-> "<=", value |-> m]
VelocityMin(m) == [attr |-> "velocity", op |-> ">=", value |-> m]

Matches(f, approach) ==
    LET x == IF f.attr = "distance" THEN approach.distance.milli
             ELSE approach.velocity.milli
    IN  IF f.op = "<=" THEN x <= f.value ELSE x >= f.value

\* all(...) over the filters in order, stopping at the first that fails
RECURSIVE AllMatch(_, _, _)
AllMatch(filters, k, approach) ==
    IF k > Len(filters) THEN TRUE
    ELSE IF ~Matches(filters[k], approach) THEN FALSE
    ELSE AllMatch(filters, k + 1, approach)

RECURSIVE QueryLoop(_, _, _, _)
QueryLoop(cs, filters, i, out) ==
    IF i > Len(cs) THEN out
    ELSE QueryLoop(cs, filters, i + 1,
                   IF AllMatch(filters, 1, cs[i]) THEN Append(out, i) ELSE out)

query(cs, filters) == QueryLoop(cs, filters, 1, <<>>)

-----------------------------------------------------------------------------
(* write.py.  A file is None while it does not exist, else Some(content);  *)
(* a writer's outcome is the file it leaves and the exception it raised.   *)
(* An element of `rs` is a CloseApproach whose neo is None or Some(NEO).   *)

fieldnames ==
    <<"datetime_utc", "distance_au", "velocity_km_s",
      "designation", "name", "diameter_km", "potentially_hazardous">>

\* the row with distance and velocity exchanged
CsvRow_Swapped(approach_attrs, neo_attrs) ==
    <<approach_attrs.datetime_utc, approach_attrs.velocity_km_s,
      approach_attrs.distance_au, neo_attrs.designation, neo_attrs.name,
      neo_attrs.diameter_km, neo_attrs.potentially_hazardous>>

CsvRow(approach_attrs, neo_attrs) ==
    <<approach_attrs.datetime_utc, approach_attrs.distance_au,
      approach_attrs.velocity_km_s, neo_attrs.designation, neo_attrs.name,
      neo_attrs.diameter_km, neo_attrs.potentially_hazardous>>

RECURSIVE CsvLoop(_, _, _)
CsvLoop(rs, i, outfile) ==
    IF i > Len(rs) THEN [file |-> Some(outfile), exc |-> "none"]
    ELSE LET approach == rs[i]
             approach_attrs == ApproachSerialize(approach)
         IN  IF approach.neo = None
             THEN [file |-> Some(outfile), exc |-> "AttributeError"]
             ELSE CsvLoop(rs, i + 1,
                          Append(outfile,
                                 CsvRow(approach_attrs,
                                        NeoSerialize(approach.neo[1]))))

write_to_csv(rs) == CsvLoop(rs, 1, <<fieldnames>>)

JsonRecord(approach_attrs, neo_attrs) ==
    [datetime_utc |-> approach_attrs.datetime_utc,
     distance_au |-> approach_attrs.distance_au,
     velocity_km_s |-> approach_attrs.velocity_km_s,
     neo |-> [designation |-> neo_attrs.designation,
              name |-> neo_attrs.name,
              diameter_km |-> neo_attrs.diameter_km,
              potentially_hazardous |-> neo_attrs.potentially_hazardous]]

RECURSIVE JsonLoop(_, _, _, _)
JsonLoop(rs, i, approaches, before) ==
    IF i > Len(rs) THEN [file |-> Some(approaches), exc |-> "none"]
    ELSE LET approach == rs[i]
             approach_attrs == ApproachSerialize(approach)
         IN  IF approach.neo = None
             THEN [file |-> before, exc |-> "AttributeError"]
             ELSE JsonLoop(rs, i + 1,
                           Append(approaches,
                                  JsonRecord(approach_attrs,
                                             NeoSerialize(approach.neo[1]))),
                           before)

\* the writer opening its file before it serializes the results
write_to_json_OpenFirst(rs, before) == JsonLoop(rs, 1, <<>>, Some(<<>>))

write_to_json(rs, before) == JsonLoop(rs, 1, <<>>, before)

-----------------------------------------------------------------------------
(* Inputs of the entity specification *)

Designations == {"", "433", "2020 AB"}
Names == {"", "Eros"}
DiameterStrings ==
    {<<>>, <<"1", "6", ".", "8", "4">>, <<"0", ".", "0", "2", "5">>,
     <<"a", "b", "c">>, <<" ">>, <<"n", "a", "n">>}
HazardFlags == {"Y", "N", ""}

NeoArgs ==
    [designation : Designations, name : Names,
     diameter : DiameterStrings, hazardous : HazardFlags]

NoInputs == [neoRows |-> <<>>, cadRows |-> <<>>, filters |-> <<>>, writer |-> "none"]

NoView == [op |-> "none", exc |-> "none", val |-> None]

DbIdle ==
    /\ pc = "idle"
    /\ neos = EmptyDict
    /\ cads = <<>>
    /\ results = <<>>
    /\ csvFile = None
    /\ jsonFile = None
    /\ exc = "none"
    /\ inputs = NoInputs

InitEntity ==
    /\ args \in NeoArgs
    /\ obj = NearEarthObject(args.designation, args.name,
                             args.diameter, args.hazardous)
    /\ view = NoView
    /\ DbIdle

GetFullname ==
    /\ Returned(obj)
    /\ view' = [op |-> "fullname", exc |-> "none", val |-> fullname(obj.val)]
    /\ UNCHANGED <<args, obj>>
    /\ UNCHANGED dbVars

CallStr ==
    /\ Returned(obj)
    /\ LET r == NeoStr(obj.val)
       IN  view' = [op |-> "__str__", exc |-> r.exc, val |-> r.val]
    /\ UNCHANGED <<args, obj>>
    /\ UNCHANGED dbVars

CallSerialize ==
    /\ Returned(obj)
    /\ view' = [op |-> "serialize", exc |-> "none",
                val |-> NeoSerialize(obj.val)]
    /\ UNCHANGED <<args, obj>>
    /\ UNCHANGED dbVars

NextEntity == GetFullname \/ CallStr \/ CallSerialize

SpecEntity == InitEntity /\ [][NextEntity]_vars

-----------------------------------------------------------------------------
(* Claims about the entity model, checked under SpecEntity *)

\* C2: a NEO whose name is absent has fullname equal to exactly its
\* designation (no " - " separator, no literal "None"); a NEO with a name
\* has fullname "<designation> - <name>".
C2_FullnameOmitsAbsentName ==
    (view.op = "fullname" /\ args.designation # "") =>
        IF args.name = ""
        THEN view.val = args.designation
        ELSE view.val = args.designation \o " - " \o args.name

\* C3: constructing a NearEarthObject with an empty designation fails, so no
\* NEO with an empty designation exists.
C3_EmptyDesignationRejected ==
    (args.designation = "") => ~Returned(obj)

\* C4: constructing a NearEarthObject with a non-empty designation never
\* fails, whatever the name, diameter and hazardous-flag strings are.
C4_NonEmptyDesignationNeverFails ==
    (args.designation # "") => Returned(obj)

\* C5: a NEO built with an empty diameter string has the NaN sentinel as its
\* diameter, and str(neo) returns a text showing "not available" in place of
\* the diameter; with a measured diameter it shows the diameter with three
\* decimals.
C5_StrShowsDiameter ==
    /\ (Returned(obj) /\ args.diameter = <<>>) => isnan(obj.val.diameter)
    /\ (view.op = "__str__" /\ args.designation # "") =>
          /\ view.exc = "none"
          /\ view.val =
               fullname(obj.val) \o ", has a diameter of "
               \o (IF isnan(obj.val.diameter) THEN "not available"
                   ELSE Fixed3(obj.val.diameter))
               \o ", and " \o (IF obj.val.hazardous THEN "is" ELSE "is not")
               \o " potentially hazardous."

\* C6: serialize() returns a mapping with exactly the keys designation, name,
\* diameter_km, potentially_hazardous; designation, diameter_km and
\* potentially_hazardous are the stored fields; name is the input name, which
\* is "" exactly when the in-memory name is absent; the NEO itself is left as
\* constructed (its name stays absent, not "").
C6_SerializeMapping ==
    (view.op = "serialize") =>
        /\ DOMAIN view.val =
             {"designation", "name", "diameter_km", "potentially_hazardous"}
        /\ view.val.designation = obj.val.designation
        /\ view.val.diameter_km = obj.val.diameter
        /\ view.val.potentially_hazardous = obj.val.hazardous
        /\ view.val.name = args.name
        /\ (view.val.name = "") <=> (obj.val.name = None)
        /\ (obj.val.name # None) => (view.val.name = obj.val.name[1])
        /\ obj = NearEarthObject(args.designation, args.name,
                                 args.diameter, args.hazardous)

C6_Witness ==
    /\ view.op = "serialize"
    /\ args.name = ""
    /\ obj.val.name = None
    /\ view.val.name = ""
    /\ isnan(view.val.diameter_km)

-----------------------------------------------------------------------------
(* The main program: load both files, build the database, run one query,   *)
(* write the results with the writer the output file's extension selects.  *)

MaxNeoRows == 2
MaxCadRows == 2
MaxFilters == 2

Line(pdes, name, diameter, pha) ==
    [pdes |-> pdes, name |-> name, diameter |-> diameter, pha |-> pha]

NeoLines ==
    {Line("433", "Eros", <<"1", "6", ".", "8", "4">>, "N"),
     Line("433", "", <<>>, "Y"),
     Line("1036", "Ganymed", <<"3", "7", ".", "6", "7", "5">>, "N"),
     Line("", "", <<>>, "N"),
     Line("3122", "Florence", <<"a", "b", "c">>, "N")}

Cad(des, cd, dist, v_rel) == <<des, "", "", cd, dist, "", "", v_rel>>

T1 == <<1900, "Dec", 27, 1, 30>>
T2 == <<2020, "Jan", 1, 12, 5>>

CadRows ==
    {Cad("433", T1, <<"0", ".", "3">>, <<"5", ".", "5">>),
     Cad("433", T2, <<"0", ".", "0", "5">>, <<"9", ".", "1">>),
     Cad("1036", T1, <<"0", ".", "1">>, <<"5">>),
     Cad("9999", T2, <<"0", ".", "2">>, <<"6", ".", "5">>),
     Cad("433", T1, <<"x">>, <<"5", ".", "5">>)}

Filters == {DistanceMax(200), VelocityMin(6000)}

SeqsUpTo(S, n) == UNION {[1..k -> S] : k \in 0..n}

\* results as the writers see them: each approach with its neo resolved
Resolve(ns, cs, rs) ==
    [k \in 1..Len(rs) |->
        LET a == cs[rs[k]]
        IN  [a EXCEPT !.neo = IF a.neo = None THEN None
                               ELSE Some(ns[a.neo[1]])]]

EntityIdle ==
    /\ args = [designation |-> "", name |-> "", diameter |-> <<>>,
               hazardous |-> ""]
    /\ obj = Raise("NotConstructed")
    /\ view = NoView

InitDb ==
    /\ EntityIdle
    /\ pc = "start"
    /\ neos = EmptyDict
    /\ cads = <<>>
    /\ results = <<>>
    /\ csvFile = None
    /\ jsonFile = None
    /\ exc = "none"
    /\ inputs = NoInputs

LoadNeos ==
    /\ pc = "start"
    /\ \E reader \in SeqsUpTo(NeoLines, MaxNeoRows) :
         LET r == load_neos(reader)
         IN  /\ inputs' = [inputs EXCEPT !.neoRows = reader]
             /\ IF Returned(r)
                THEN /\ neos' = r.val
                     /\ pc' = "neos_loaded"
                     /\ exc' = "none"
                ELSE /\ neos' = neos
                     /\ pc' = "neos_failed"
                     /\ exc' = r.exc
    /\ UNCHANGED <<cads, results, csvFile, jsonFile>>
    /\ UNCHANGED entityVars

LoadApproaches ==
    /\ pc = "neos_loaded"
    /\ \E data \in SeqsUpTo(CadRows, MaxCadRows) :
         LET r == load_approaches(data)
         IN  /\ inputs' = [inputs EXCEPT !.cadRows = data]
             /\ IF Returned(r)
                THEN /\ cads' = r.val
                     /\ pc' = "loaded"
                     /\ exc' = "none"
                ELSE /\ cads' = cads
                     /\ pc' = "cads_failed"
                     /\ exc' = r.exc
    /\ UNCHANGED <<neos, results, csvFile, jsonFile>>
    /\ UNCHANGED entityVars

BuildDatabase ==
    /\ pc = "loaded"
    /\ LET db == NEODatabase(neos, cads)
       IN  /\ neos' = db.neos
           /\ cads' = db.cads
    /\ pc' = "built"
    /\ UNCHANGED <<results, csvFile, jsonFile, exc, inputs>>
    /\ UNCHANGED entityVars

Query ==
    /\ pc = "built"
    /\ \E filters \in SeqsUpTo(Filters, MaxFilters) :
         /\ results' = query(cads, filters)
         /\ inputs' = [inputs EXCEPT !.filters = filters]
    /\ pc' = "queried"
    /\ UNCHANGED <<neos, cads, csvFile, jsonFile, exc>>
    /\ UNCHANGED entityVars

WriteCsv ==
    /\ pc = "queried"
    /\ LET w == write_to_csv(Resolve(neos, cads, results))
       IN  /\ csvFile' = w.file
           /\ exc' = w.exc
           /\ pc' = IF w.exc = "none" THEN "done" ELSE "write_failed"
    /\ inputs' = [inputs EXCEPT !.writer = "csv"]
    /\ UNCHANGED <<neos, cads, results, jsonFile>>
    /\ UNCHANGED entityVars

WriteJson ==
    /\ pc = "queried"
    /\ LET w == write_to_json(Resolve(neos, cads, results), jsonFile)
       IN  /\ jsonFile' = w.file
           /\ exc' = w.exc
           /\ pc' = IF w.exc = "none" THEN "done" ELSE "write_failed"
    /\ inputs' = [inputs EXCEPT !.writer = "json"]
    /\ UNCHANGED <<neos, cads, results, csvFile>>
    /\ UNCHANGED entityVars

NextDb ==
    \/ LoadNeos
    \/ LoadApproaches
    \/ BuildDatabase
    \/ Query
    \/ WriteCsv
    \/ WriteJson

SpecDb == InitDb /\ [][NextDb]_vars

-----------------------------------------------------------------------------
(* Claims about the loaders, the database and the writers, under SpecDb *)

Range(f) == {f[i] : i \in DOMAIN f}
Increasing(f) == \A i, j \in DOMAIN f : i < j => f[i] < f[j]
NeosLoaded == pc \notin {"start", "neos_failed"}
Built == pc \notin {"start", "neos_failed", "neos_loaded", "cads_failed", "loaded"}
Queried == pc = "queried" \/ inputs.writer # "none"
Unlinked == {k \in 1..Len(results) : cads[results[k]].neo = None}

\* C1: every NEO starts with approaches = [] and every CloseApproach with
\* neo = None; once the database is built, every loaded approach either has
\* neo = None or is contained in the approaches of the NEO it references, and
\* every NEO's approaches are in the approaches' load order.
C1_BidirectionalLinks ==
    /\ (pc \in {"neos_loaded", "cads_failed", "loaded"}) =>
          \A d \in DOMAIN neos : neos[d].approaches = <<>>
    /\ (pc = "loaded") => \A i \in 1..Len(cads) : cads[i].neo = None
    /\ Built =>
          /\ \A i \in 1..Len(cads) :
                \/ cads[i].neo = None
                \/ /\ cads[i].neo[1] \in DOMAIN neos
                   /\ i \in Range(neos[cads[i].neo[1]].approaches)
          /\ \A d \in DOMAIN neos : Increasing(neos[d].approaches)

C1_Witness ==
    /\ pc = "built"
    /\ Len(cads) = 2
    /\ cads[1].neo = None
    /\ cads[2].neo # None
    /\ neos[cads[2].neo[1]].approaches = <<2>>

\* The record each writer must emit for the k-th result.
ExpectedAttrs(k) ==
    LET a == cads[results[k]]
        n == neos[a.neo[1]]
    IN  [datetime_utc |-> datetime_to_str(a.time),
         distance_au |-> a.distance,
         velocity_km_s |-> a.velocity,
         designation |-> n.designation,
         name |-> IF n.name = None THEN "" ELSE n.name[1],
         diameter_km |-> n.diameter,
         potentially_hazardous |-> n.hazardous]

ExpectedCsvRow(k) ==
    LET e == ExpectedAttrs(k)
    IN  <<e.datetime_utc, e.distance_au, e.velocity_km_s, e.designation,
          e.name, e.diameter_km, e.potentially_hazardous>>

ExpectedJson(k) ==
    LET e == ExpectedAttrs(k)
    IN  [datetime_utc |-> e.datetime_utc,
         distance_au |-> e.distance_au,
         velocity_km_s |-> e.velocity_km_s,
         neo |-> [designation |-> e.designation, name |-> e.name,
                  diameter_km |-> e.diameter_km,
                  potentially_hazardous |-> e.potentially_hazardous]]

\* C7: for results whose approaches are all linked, each writer finishes and
\* emits one record per approach, in the order of the results, carrying the
\* approach's datetime_utc, distance_au, velocity_km_s and its NEO's
\* designation, name, diameter_km, potentially_hazardous; the CSV starts with
\* the header row; empty results give a header-only CSV and an empty JSON
\* list.
C7_WritersEmitEveryResult ==
    (inputs.writer # "none" /\ Unlinked = {}) =>
        /\ pc = "done"
        /\ exc = "none"
        /\ (inputs.writer = "csv") =>
              /\ csvFile # None
              /\ Len(csvFile[1]) = Len(results) + 1
              /\ csvFile[1][1] = fieldnames
              /\ \A k \in 1..Len(results) : csvFile[1][k + 1] = ExpectedCsvRow(k)
        /\ (inputs.writer = "json") =>
              /\ jsonFile # None
              /\ Len(jsonFile[1]) = Len(results)
              /\ \A k \in 1..Len(results) : jsonFile[1][k] = ExpectedJson(k)

C7_Witness ==
    /\ pc = "done"
    /\ inputs.writer = "csv"
    /\ Len(results) = 2
    /\ Len(csvFile[1]) = 3
    /\ cads[results[1]].neo # cads[results[2]].neo

\* C8: query(filters) yields exactly the loaded approaches on which every
\* filter is true, in the order load_approaches appended them (the order of
\* the input rows); the result is the same for the filters in reverse order.
Reverse(f) == [k \in 1..Len(f) |-> f[Len(f) + 1 - k]]

C8_QueryIsOrderedConjunction ==
    /\ (pc \notin {"start", "neos_failed", "neos_loaded", "cads_failed"}) =>
          /\ Len(cads) = Len(inputs.cadRows)
          /\ \A i \in 1..Len(cads) :
                LET row == inputs.cadRows[i]
                IN  /\ cads[i]._designation = row[1]
                    /\ cads[i].time = cd_to_datetime(row[4]).val
                    /\ cads[i].distance = ParseFloat(row[5]).val
                    /\ cads[i].velocity = ParseFloat(row[8]).val
    /\ Queried =>
          /\ Range(results) =
               {i \in 1..Len(cads) :
                   \A k \in 1..Len(inputs.filters) :
                       Matches(inputs.filters[k], cads[i])}
          /\ Increasing(results)
          /\ results = query(cads, Reverse(inputs.filters))

C8_Witness ==
    /\ pc = "queried"
    /\ Len(inputs.filters) = 2
    /\ inputs.filters[1] # inputs.filters[2]
    /\ Len(cads) = 2
    /\ cads[1] # cads[2]
    /\ results = <<2>>

\* C9: load_neos returns an index with exactly one entry per distinct
\* designation of the input rows; each key is the designation of its NEO; of
\* several rows sharing a designation the last one's NEO is the entry; and
\* rows sharing a designation raise no error (load_neos raises only when a
\* row's construction does).
C9_LoadNeosLastRowWins ==
    LET rows == inputs.neoRows
        Built_(i) == NearEarthObject(rows[i].pdes, rows[i].name,
                                     rows[i].diameter, rows[i].pha)
    IN  /\ NeosLoaded =>
              /\ DOMAIN neos = {rows[i].pdes : i \in 1..Len(rows)}
              /\ \A d \in DOMAIN neos :
                    LET last == CHOOSE i \in 1..Len(rows) :
                                  /\ rows[i].pdes = d
                                  /\ \A j \in 1..Len(rows) :
                                        rows[j].pdes = d => j <= i
                    IN  /\ neos[d].designation = d
                        /\ [neos[d] EXCEPT !.approaches = <<>>] = Built_(last).val
        /\ (pc = "neos_failed") =>
              \E i \in 1..Len(rows) : ~Returned(Built_(i))

C9_Witness ==
    /\ pc = "neos_loaded"
    /\ Len(inputs.neoRows) = 2
    /\ inputs.neoRows[1].pdes = inputs.neoRows[2].pdes
    /\ inputs.neoRows[1] # inputs.neoRows[2]
    /\ Cardinality(DOMAIN neos) = 1

\* C10: when the results hold an unlinked approach, the first at position k
\* (k results before it), both writers fail there: write_to_csv leaves a file
\* holding the header and the k preceding rows, write_to_json leaves no file;
\* neither skips the approach and goes on.
C10_UnlinkedResultFailsWriters ==
    (inputs.writer # "none" /\ Unlinked # {}) =>
        LET k == (CHOOSE u \in Unlinked : \A w \in Unlinked : u <= w) - 1
        IN  /\ pc = "write_failed"
            /\ exc = "AttributeError"
            /\ (inputs.writer = "csv") =>
                  /\ jsonFile = None
                  /\ csvFile # None
                  /\ Len(csvFile[1]) = k + 1
                  /\ csvFile[1][1] = fieldnames
                  /\ \A j \in 1..k : csvFile[1][j + 1] = ExpectedCsvRow(j)
            /\ (inputs.writer = "json") =>
                  /\ jsonFile = None
                  /\ csvFile = None

C10_Witness ==
    /\ pc = "write_failed"
    /\ inputs.writer = "csv"
    /\ Len(results) = 2
    /\ Unlinked = {2}
    /\ Len(csvFile[1]) = 2

====
